---- MODULE Spec2Model ----
(***************************************************************************)
(* rpm-builder: the command line front end of src/src/main.rs.             *)
(*                                                                         *)
(* A run of main is modelled as a state machine: one action per step of    *)
(* main (one iteration of a loop per transition), the calls made on the    *)
(* external package builder and on the filesystem recorded in `calls`.     *)
(* Text (arguments, paths, versions) is a sequence of one-character        *)
(* strings, so that splitting and matching are computed as the code        *)
(* computes them.                                                          *)
(***************************************************************************)
EXTENDS Integers, Sequences, FiniteSets, TLC

VARIABLES
    pc,       \* position of main: the step about to be executed
    idx,      \* index of the next item of the loop of the current step
    args,     \* the parsed command line (struct Cli)
    fs,       \* the filesystem the run reads: path -> node
    parsed,   \* the vector returned by parse_file_options for the current step
    calls,    \* the calls made so far on the builder, the filesystem and the package
    err,      \* the error main returned with, NoErr while running
    output_path, \* the resolved output path, None until it is resolved
    outFile   \* the state of the file at the resolved output path

vars == <<pc, idx, args, fs, parsed, calls, err, output_path, outFile>>

----------------------------------------------------------------------------
(* Bounds of the model *)

\* the longest file-class argument drawn character by character
MaxFileLen == 3
\* the longest dependency argument drawn character by character
MaxDepLen == 3
\* the number of repeatable arguments and options of a run of the full CLI
MaxArgs == 2
\* the number of --changelog arguments of a run of the changelog parser
MaxChangelogs == 2
\* longest --out path tried character by character
MaxOutLen == 3
\* most directory mappings on one command line
MaxDirArgs == 2
\* most directories nested in one another in a source tree
MaxNest == 3
\* dependency options on a command line that gives only those
MaxDeps == 2

----------------------------------------------------------------------------
(* Text *)

Last(s) == s[Len(s)]

\* all sequences over S of length 0..n
RECURSIVE StrUpTo(_, _)
StrUpTo(S, n) ==
    IF n = 0 THEN {<<>>}
    ELSE LET T == StrUpTo(S, n - 1)
         IN  T \cup {Append(t, c) : t \in {u \in T : Len(u) = n - 1}, c \in S}

\* position of the first c in s, 0 when there is none
RECURSIVE IndexFrom(_, _, _)
IndexFrom(s, c, i) ==
    IF i > Len(s) THEN 0
    ELSE IF s[i] = c THEN i
    ELSE IndexFrom(s, c, i + 1)

IndexOf(s, c) == IndexFrom(s, c, 1)

\* str::split(":"): the segments between the delimiters, one more than there
\* are delimiters; the empty string gives one empty segment
RECURSIVE split(_, _)
split(s, c) ==
    LET i == IndexOf(s, c)
    IN  IF i = 0 THEN <<s>>
        ELSE <<SubSeq(s, 1, i - 1)>> \o split(SubSeq(s, i + 1, Len(s)), c)

----------------------------------------------------------------------------
(* Errors: the kind of the anyhow error main returns with and the text the *)
(* message quotes                                                          *)

NoErr == [kind |-> "none", input |-> <<>>]
Error(k, s) == [kind |-> k, input |-> s]

----------------------------------------------------------------------------
(* parse_file_options, main.rs:472-486 *)

\* parse_file_option with splitn(2, ":") for split(":"): only the first ':'
\* separates
parse_file_option_splitn(input) ==
    LET i == IndexOf(input, ":")
    IN  IF i = 0
        THEN [ok |-> FALSE, err |-> Error("invalid file argument", input)]
        ELSE [ok |-> TRUE, src |-> SubSeq(input, 1, i - 1),
              dest |-> SubSeq(input, i + 1, Len(input))]

\* one element of the map closure: the (source, FileOptions::new(dest)) pair
\* of an argument with exactly two segments, an error quoting it otherwise
parse_file_option(input) ==
    LET parts == split(input, ":")
    IN  IF Len(parts) # 2
        THEN [ok |-> FALSE, err |-> Error("invalid file argument", input)]
        ELSE [ok |-> TRUE, src |-> parts[1], dest |-> parts[2]]

\* collect() into a Result: the first failing element is the result
parse_file_options(raw_files) ==
    LET rs  == [i \in 1..Len(raw_files) |-> parse_file_option(raw_files[i])]
        bad == {i \in 1..Len(raw_files) : ~rs[i].ok}
    IN  IF bad # {}
        THEN [ok |-> FALSE,
              err |-> rs[CHOOSE i \in bad : \A j \in bad : i <= j].err]
        ELSE [ok |-> TRUE,
              val |-> [i \in 1..Len(raw_files) |->
                          [src |-> rs[i].src, dest |-> rs[i].dest]]]

----------------------------------------------------------------------------
(* parse_dependency, main.rs:488-515 *)

Letters ==
    {"a","b","c","d","e","f","g","h","i","j","k","l","m","n","o","p","q","r",
     "s","t","u","v","w","x","y","z",
     "A","B","C","D","E","F","G","H","I","J","K","L","M","N","O","P","Q","R",
     "S","T","U","V","W","X","Y","Z"}
Digits == {"0","1","2","3","4","5","6","7","8","9"}

\* the name class with '/' added to it
IsNameCharOrSlash(c) == c \in Letters \cup Digits \cup {"-", ".", "_", "/"}

\* the class [a-zA-Z0-9\-\._]
IsNameChar(c) == c \in Letters \cup Digits \cup {"-", ".", "_"}
\* the class \s
SpaceChars == {" ", "\t", "\n", "\r", "\f"}
IsSpace(c) == c \in SpaceChars
\* the class . (any character but a line break)
IsDot(c) == c # "\n"

\* the alternation (>=|>|=|<=|<), in the order the regex tries it
OpAlternation == << <<">", "=">>, <<">">>, <<"=">>, <<"<", "=">>, <<"<">> >>

\* does t occur in s at position i
MatchesAt(s, t, i) ==
    /\ i + Len(t) - 1 <= Len(s)
    /\ \A j \in 1..Len(t) : s[i + j - 1] = t[j]

\* The ways ^([a-zA-Z0-9\-\._]+)(\s*(>=|>|=|<=|<)(.+))?$ matches line: n
\* characters of name, then either the end of the line (g = FALSE) or w blanks,
\* alternative k of the operator and at least one more character up to the end.
RegexMatches(line) ==
    LET L == Len(line)
        nameOk(n) == \A i \in 1..n : IsNameChar(line[i])
    IN  (IF L >= 1 /\ nameOk(L)
         THEN {[n |-> L, g |-> FALSE, w |-> 0, k |-> 0]}
         ELSE {})
        \cup
        {m \in [n : 1..L, g : {TRUE}, w : 0..L, k : 1..Len(OpAlternation)] :
            /\ nameOk(m.n)
            /\ m.n + m.w <= L
            /\ \A i \in (m.n + 1)..(m.n + m.w) : IsSpace(line[i])
            /\ MatchesAt(line, OpAlternation[m.k], m.n + m.w + 1)
            /\ m.n + m.w + Len(OpAlternation[m.k]) < L
            /\ \A i \in (m.n + m.w + Len(OpAlternation[m.k]) + 1)..L : IsDot(line[i])}

\* the order in which the regex engine prefers matches: greedy name, the
\* optional group taken when it can be, greedy blanks, the first alternative
Preferred(a, b) ==
    \/ a.n > b.n
    \/ a.n = b.n /\ a.g /\ ~b.g
    \/ a.n = b.n /\ a.g = b.g /\ a.w > b.w
    \/ a.n = b.n /\ a.g = b.g /\ a.w = b.w /\ a.k < b.k

\* re.captures(line) followed by the filter on the groups that took part:
\* <<whole, name>> or <<whole, name, group 2, operator, version>>; <<>> is None
Captures(line) ==
    LET ms == RegexMatches(line)
    IN  IF ms = {} THEN <<>>
        ELSE LET m  == CHOOSE a \in ms : \A b \in ms \ {a} : Preferred(a, b)
                 op == OpAlternation[m.k]
             IN  IF ~m.g THEN <<line, SubSeq(line, 1, m.n)>>
                 ELSE <<line,
                        SubSeq(line, 1, m.n),
                        SubSeq(line, m.n + 1, Len(line)),
                        op,
                        SubSeq(line, m.n + m.w + Len(op) + 1, Len(line))>>

\* rpm::Dependency::any / eq / less / less_eq / greater_eq / greater
Dependency(name, flags, version) ==
    [name |-> name, flags |-> flags, version |-> version]

\* the match on parts[3] with the arms of "<" and "<=" exchanged
DependencyFlagSwapped(op) ==
    CASE op = <<"=">>      -> "eq"
      [] op = <<"<">>      -> "less_eq"
      [] op = <<"<", "=">> -> "less"
      [] op = <<">", "=">> -> "greater_eq"
      [] op = <<">">>      -> "greater"
      [] OTHER             -> "unknown"

\* the match on parts[3]
DependencyFlag(op) ==
    CASE op = <<"=">>      -> "eq"
      [] op = <<"<">>      -> "less"
      [] op = <<"<", "=">> -> "less_eq"
      [] op = <<">", "=">> -> "greater_eq"
      [] op = <<">">>      -> "greater"
      [] OTHER             -> "unknown"

\* parse_dependency that takes a line the regex does not match as a name
parse_dependency_lenient(line) ==
    LET parts == Captures(line)
    IN  IF parts = <<>>
        THEN [ok |-> TRUE, dep |-> Dependency(line, "any", <<>>)]
        ELSE IF Len(parts) <= 2
        THEN [ok |-> TRUE, dep |-> Dependency(parts[2], "any", <<>>)]
        ELSE [ok |-> TRUE,
              dep |-> Dependency(parts[2], DependencyFlag(parts[4]), parts[5])]

\* parts is 0-indexed in the code: parts[1] is the name, parts[3] the
\* operator, parts[4] the version
parse_dependency(line) ==
    LET parts == Captures(line)
    IN  IF parts = <<>>
        THEN [ok |-> FALSE, err |-> Error("invalid pattern in dependency block", line)]
        ELSE IF Len(parts) <= 2
        THEN [ok |-> TRUE, dep |-> Dependency(parts[2], "any", <<>>)]
        ELSE IF DependencyFlag(parts[4]) = "unknown"
        THEN [ok |-> FALSE, err |-> Error("regex is invalid here", parts[4])]
        ELSE [ok |-> TRUE,
              dep |-> Dependency(parts[2], DependencyFlag(parts[4]), parts[5])]

----------------------------------------------------------------------------
(* The changelog date: chrono::NaiveDate::parse_from_str(raw_time,         *)
(* "%Y-%m-%d"), then and_hms_opt(0, 0, 0).and_utc().timestamp() as u32,    *)
(* main.rs:351-355                                                         *)

DigitValue(c) ==
    CASE c = "0" -> 0 [] c = "1" -> 1 [] c = "2" -> 2 [] c = "3" -> 3
      [] c = "4" -> 4 [] c = "5" -> 5 [] c = "6" -> 6 [] c = "7" -> 7
      [] c = "8" -> 8 [] c = "9" -> 9

\* the number of leading characters of s, from position i, that are in S
RECURSIVE RunLength(_, _, _)
RunLength(s, i, S) ==
    IF i <= Len(s) /\ s[i] \in S THEN 1 + RunLength(s, i + 1, S) ELSE 0

RECURSIVE DecimalValue(_)
DecimalValue(ds) ==
    IF ds = <<>> THEN 0
    ELSE 10 * DecimalValue(SubSeq(ds, 1, Len(ds) - 1)) + DigitValue(Last(ds))

\* scan::number(s, min, max) at position i: between min and max digits;
\* [ok, value, next]
ScanNumber(s, i, min, max) ==
    LET run == RunLength(s, i, Digits)
        n   == IF run > max THEN max ELSE run
    IN  IF n < min THEN [ok |-> FALSE, value |-> 0, next |-> i]
        ELSE [ok |-> TRUE, value |-> DecimalValue(SubSeq(s, i, i + n - 1)), next |-> i + n]

\* a numeric item skips the blanks before it
SkipSpace(s, i) == i + RunLength(s, i, SpaceChars)

\* %Y: a signed year has any number of digits, an unsigned one at most four
ScanYear(s, i0) ==
    LET i == SkipSpace(s, i0)
    IN  IF i <= Len(s) /\ s[i] = "-"
        THEN LET r == ScanNumber(s, i + 1, 1, Len(s))
             IN  [ok |-> r.ok, value |-> 0 - r.value, next |-> r.next]
        ELSE IF i <= Len(s) /\ s[i] = "+"
        THEN ScanNumber(s, i + 1, 1, Len(s))
        ELSE ScanNumber(s, i, 1, 4)

IsLeapYear(y) == y % 4 = 0 /\ (y % 100 # 0 \/ y % 400 = 0)

DaysInMonth(y, m) ==
    CASE m \in {1, 3, 5, 7, 8, 10, 12} -> 31
      [] m \in {4, 6, 9, 11}           -> 30
      [] OTHER                         -> IF IsLeapYear(y) THEN 29 ELSE 28

\* the years NaiveDate can hold
MinYear == -262143
MaxYear == 262142

\* NaiveDate::parse_from_str(s, "%Y-%m-%d"): [ok, y, m, d]
ParseDate(s) ==
    LET bad == [ok |-> FALSE, y |-> 0, m |-> 0, d |-> 0]
        yr  == ScanYear(s, 1)
    IN  IF ~yr.ok \/ yr.next > Len(s) \/ s[yr.next] # "-" THEN bad
        ELSE LET mo == ScanNumber(s, SkipSpace(s, yr.next + 1), 1, 2)
             IN  IF ~mo.ok \/ mo.next > Len(s) \/ s[mo.next] # "-" THEN bad
                 ELSE LET dy == ScanNumber(s, SkipSpace(s, mo.next + 1), 1, 2)
                      IN  IF ~dy.ok \/ dy.next # Len(s) + 1 THEN bad
                          ELSE IF \/ yr.value < MinYear \/ yr.value > MaxYear
                                  \/ mo.value < 1 \/ mo.value > 12
                                  \/ dy.value < 1
                                  \/ dy.value > DaysInMonth(yr.value, mo.value)
                          THEN bad
                          ELSE [ok |-> TRUE, y |-> yr.value, m |-> mo.value, d |-> dy.value]

\* floor division, also for a negative dividend
FloorDiv(a, b) == IF a >= 0 THEN a \div b ELSE 0 - ((b - 1 - a) \div b)

\* days from 1970-01-01 to the civil date y-m-d (proleptic Gregorian)
DaysFromCivil(y, m, d) ==
    LET yy  == IF m <= 2 THEN y - 1 ELSE y
        era == FloorDiv(yy, 400)
        yoe == yy - era * 400
        mp  == IF m > 2 THEN m - 3 ELSE m + 9
        doy == (153 * mp + 2) \div 5 + d - 1
        doe == yoe * 365 + yoe \div 4 - yoe \div 100 + doy
    IN  era * 146097 + doe - 719468

\* A u32 is held as its two 16-bit halves, value = hi * 65536 + lo: the
\* model checker's integers are narrower than the i64 of timestamp().
HalfWord == 65536
U32(n) == [hi |-> n \div HalfWord, lo |-> n % HalfWord]

\* date.and_hms_opt(0, 0, 0).unwrap().and_utc().timestamp() is 86400 seconds
\* for each day since 1970-01-01, and `seconds as u32` keeps its low 32 bits.
\* 86400 = 25 * 27 * 128, so the low 32 bits of days * 86400 are the low 25
\* bits of days * 675, shifted left by 7.
\* the timestamp of noon (and_hms_opt(12, 0, 0)) for that of midnight
TimestampAsU32Noon(date) ==
    LET days == DaysFromCivil(date.y, date.m, date.d)
        x    == (((((days % 33554432) * 25) % 33554432) * 27) + 337) % 33554432
    IN  [hi |-> x \div 512, lo |-> ((x % 512) * 128 + 64) % 65536]

Pow25 == 33554432
TimestampAsU32(date) ==
    LET days == DaysFromCivil(date.y, date.m, date.d)
        x    == ((((days % Pow25) * 25) % Pow25) * 27) % Pow25
    IN  [hi |-> x \div 512, lo |-> (x % 512) * 128]

----------------------------------------------------------------------------
(* Paths (std::path) and the filesystem the run reads *)

None == [some |-> FALSE, v |-> <<>>]
Some(x) == [some |-> TRUE, v |-> x]

IsAbsolute(p) == p # <<>> /\ p[1] = "/"

\* Path::components without the root: the segments between '/', the empty
\* ones and the "." ones dropped
Components(p) ==
    SelectSeq(split(p, "/"), LAMBDA c : c # <<>> /\ c # <<".">>)

\* Path::file_name: the last component, <<>> (None) when there is none or it
\* is ".."
file_name(p) ==
    LET cs == Components(p)
    IN  IF cs = <<>> \/ Last(cs) = <<".", ".">> THEN <<>> ELSE Last(cs)

\* PathBuf::push / Path::join: an absolute argument replaces the path, a
\* separator is added unless the path is empty or ends with one
push(p, name) ==
    IF IsAbsolute(name) THEN name
    ELSE IF p = <<>> THEN name
    ELSE IF Last(p) = "/" THEN p \o name
    ELSE p \o <<"/">> \o name

NotFound == [kind |-> "none", entries |-> <<>>, target |-> <<>>, content |-> <<>>]
File(content) == [kind |-> "file", entries |-> <<>>, target |-> <<>>, content |-> content]
Dir(entries) == [kind |-> "dir", entries |-> entries, target |-> <<>>, content |-> <<>>]
Symlink(target) == [kind |-> "symlink", entries |-> <<>>, target |-> target, content |-> <<>>]

\* position of the last c in s, 0 when there is none
RECURSIVE LastIndexFrom(_, _, _)
LastIndexFrom(s, c, i) ==
    IF i = 0 THEN 0 ELSE IF s[i] = c THEN i ELSE LastIndexFrom(s, c, i - 1)

\* the directory that holds the node with key k; the root holds itself
Parent(k) ==
    LET i == LastIndexFrom(k, "/", Len(k))
    IN  IF i = 0 THEN <<>> ELSE SubSeq(k, 1, i - 1)

\* The operating system's path resolution in filesystem f.  The process runs
\* in the root directory, so a node's key is its path from the root without
\* the leading '/', and <<>> is the key of the root.  Gives the key of the
\* node the components cs name from directory cur, <<"?">> when there is
\* none.  A symbolic link met on the way is followed (the last component
\* only when follow), at most fuel times.
RECURSIVE ResolveFrom(_, _, _, _, _)
ResolveFrom(f, cur, cs, follow, fuel) ==
    IF cs = <<>> THEN cur
    ELSE IF Head(cs) = <<".", ".">>
    THEN ResolveFrom(f, Parent(cur), Tail(cs), follow, fuel)
    ELSE LET nxt == push(cur, Head(cs))
         IN  IF nxt \notin DOMAIN f THEN <<"?">>
             ELSE IF f[nxt].kind = "symlink" /\ (follow \/ Len(cs) > 1)
             THEN IF fuel = 0 THEN <<"?">>
                  ELSE LET t    == f[nxt].target
                           base == IF IsAbsolute(t) THEN <<>> ELSE cur
                       IN  IF t = <<>> THEN <<"?">>
                           ELSE ResolveFrom(f, base, Components(t) \o Tail(cs),
                                            follow, fuel - 1)
             ELSE IF f[nxt].kind # "dir" /\ Len(cs) > 1 THEN <<"?">>
             ELSE ResolveFrom(f, nxt, Tail(cs), follow, fuel)

\* a path that ends in '/' or '/.' names a directory or nothing
MustBeDir(p) ==
    Len(p) > 1 /\ (Last(p) = "/" \/ (Last(p) = "." /\ p[Len(p) - 1] = "/"))

\* the key k found for the path p, <<"?">> when p must name a directory and
\* k is not one
DirOrNothing(f, p, k) ==
    IF MustBeDir(p) /\ k \in DOMAIN f /\ f[k].kind # "dir" THEN <<"?">> ELSE k

Resolve(f, p, follow) ==
    IF p = <<>> THEN <<"?">>
    ELSE DirOrNothing(f, p, ResolveFrom(f, <<>>, Components(p),
                                        follow \/ MustBeDir(p),
                                        Cardinality(DOMAIN f)))

\* the node with key k, NotFound when there is none
NodeAt(f, k) == IF k \in DOMAIN f THEN f[k] ELSE NotFound

\* fs::metadata / File::open: the node p names, links followed
Stat(f, p) == NodeAt(f, Resolve(f, p, TRUE))

\* DirEntry::metadata / fs::read_link: the node p names, a link not followed
Lstat(f, p) == NodeAt(f, Resolve(f, p, FALSE))

----------------------------------------------------------------------------
(* The calls a run makes: on the builder (rpm::PackageBuilder), on the     *)
(* filesystem (std::fs) and on the built package.  Every record has the    *)
(* fields op and ok.                                                       *)

\* rpm::FileOptions::new(dest), then mode(), is_config(), is_doc();
\* mode 0 stands for a mode that was not set
FileOptions(dest) == [dest |-> dest, mode |-> 0, config |-> FALSE, doc |-> FALSE]

\* 0o100755
ExecMode == 33261

\* builder.with_file(src, options): the builder opens src when it is added
with_file(f, from, src, options) ==
    [op |-> "with_file", from |-> from, src |-> src, options |-> options,
     ok |-> Stat(f, src).kind = "file"]

----------------------------------------------------------------------------
(* add_dir, main.rs:443-470 *)

\* The calls add_dir makes for the directory full_path, in the order the
\* filesystem yields its entries, and the error it stops with (NoErr when it
\* returns the builder).  depth counts the add_dir frames below this one; a
\* call made for a directory entry records the entry's path.
RECURSIVE add_dir(_, _, _, _)
RECURSIVE add_dir_entries(_, _, _, _, _)

\* add_dir's loop body deciding on the metadata of what a link names, so
\* that a link to a directory is walked, at most 5 frames deep
add_dir_entry_following(f, full_path, target_path, name, depth) ==
    LET path == push(full_path, name)
        Entry(metadata) ==
            LET source == IF metadata.kind = "symlink" THEN metadata.target ELSE path
                fname  == file_name(source)
                Added(c) ==
                    [calls |-> <<c>>,
                     err |-> IF c.ok THEN NoErr ELSE Error("with_file", source)]
            IN  IF fname = <<>>
                THEN [calls |-> <<>>,
                      err |-> Error("path does not have filename", source)]
                ELSE IF Stat(f, source).kind = "dir" /\ depth < 5
                THEN add_dir(f, source, push(target_path, fname), depth + 1)
                ELSE Added(with_file(f, "dir", source,
                                     FileOptions(push(target_path, fname)))
                           @@ [entry |-> path])
    IN  Entry(Lstat(f, path))

\* add_dir's loop body for the entry name of full_path: metadata is the
\* entry's own (a link is not followed), source the link's target or the
\* entry's path
add_dir_entry(f, full_path, target_path, name, depth) ==
    LET path == push(full_path, name)
        Entry(metadata) ==
            LET source == IF metadata.kind = "symlink" THEN metadata.target ELSE path
                fname  == file_name(source)
                Added(c) ==
                    [calls |-> <<c>>,
                     err |-> IF c.ok THEN NoErr ELSE Error("with_file", source)]
            IN  IF fname = <<>>
                THEN [calls |-> <<>>,
                      err |-> Error("path does not have filename", source)]
                ELSE IF metadata.kind = "dir"
                THEN add_dir(f, source, push(target_path, fname), depth + 1)
                ELSE Added(with_file(f, "dir", source,
                                     FileOptions(push(target_path, fname)))
                           @@ [entry |-> path])
    IN  Entry(Lstat(f, path))

\* add_dir's loop leaving after the first entry
add_dir_first_entry(f, full_path, target_path, names, depth) ==
    IF names = <<>> THEN [calls |-> <<>>, err |-> NoErr]
    ELSE add_dir_entry(f, full_path, target_path, Head(names), depth)

\* the calls of the entry first followed by those of the entries after it,
\* which an error of first leaves out
Continue(first, rest) ==
    IF first.err # NoErr THEN first
    ELSE [calls |-> first.calls \o rest.calls, err |-> rest.err]

add_dir_entries(f, full_path, target_path, names, depth) ==
    IF names = <<>> THEN [calls |-> <<>>, err |-> NoErr]
    ELSE Continue(add_dir_entry(f, full_path, target_path, Head(names), depth),
                  add_dir_entries(f, full_path, target_path, Tail(names), depth))

add_dir(f, full_path, target_path, depth) ==
    LET Walk(node) ==
            LET rd == [op |-> "read_dir", from |-> "dir", path |-> full_path,
                       depth |-> depth, ok |-> node.kind = "dir"]
            IN  IF ~rd.ok
                THEN [calls |-> <<rd>>, err |-> Error("read_dir", full_path)]
                ELSE Continue([calls |-> <<rd>>, err |-> NoErr],
                              add_dir_entries(f, full_path, target_path,
                                              node.entries, depth))
    IN  Walk(Stat(f, full_path))

----------------------------------------------------------------------------
(* The command line: struct Cli, main.rs:38-231 *)

FileClasses == {"file", "exec_file", "config_file", "doc_file"}
Scriptlets ==
    {"pre_install_script", "post_install_script",
     "pre_uninstall_script", "post_uninstall_script"}
\* the relation kinds, in the order main adds them
DependencyKinds ==
    <<"requires", "obsoletes", "conflicts", "provides",
      "suggests", "enhances", "recommends", "supplements">>
KindSet == {DependencyKinds[i] : i \in 1..Len(DependencyKinds)}
VecOptions == FileClasses \cup {"dir", "changelog"} \cup KindSet
SingleOptions == Scriptlets \cup {"sign_with_pgp_asc", "out", "compression"}

\* the steps of main with the doc files added before the directories
StepsDocBeforeDir ==
    <<"parse", "new", "file", "exec_file", "config_file", "doc_file", "dir",
      "pre_install_script", "post_install_script",
      "pre_uninstall_script", "post_uninstall_script", "changelog">>
    \o DependencyKinds
    \o <<"sign", "build", "resolve", "create", "write", "done">>

\* the steps of main, in program order
Steps ==
    <<"parse", "new", "file", "exec_file", "config_file", "dir", "doc_file",
      "pre_install_script", "post_install_script",
      "pre_uninstall_script", "post_uninstall_script", "changelog">>
    \o DependencyKinds
    \o <<"sign", "build", "resolve", "create", "write", "done">>

StepIndex(step) == CHOOSE i \in 1..Len(Steps) : Steps[i] = step
NextStep(step) == Steps[StepIndex(step) + 1]
\* a file loop starts by parsing its whole vector (idx 0), the others with
\* their first item
StartIdx(step) == IF step \in FileClasses THEN 0 ELSE 1

\* the values clap fills in, main.rs:47-98
DefaultVersion == <<"1", ".", "0", ".", "0">>
DefaultRelease == <<"1">>
DefaultArch    == <<"n", "o", "a", "r", "c", "h">>
DefaultLicense == <<"M", "I", "T">>

\* The Cli of a command line that gives the package name (None when it is
\* missing) and the options items, each [opt, v], in the order given; unknown
\* keeps the options that struct Cli does not declare.
Cli(name, items) ==
    [o \in VecOptions |->
        LET mine == SelectSeq(items, LAMBDA it : it.opt = o)
        IN  [i \in 1..Len(mine) |-> mine[i].v]]
    @@
    [o \in SingleOptions |->
        LET mine == SelectSeq(items, LAMBDA it : it.opt = o)
        IN  IF mine = <<>> THEN None ELSE Some(mine[1].v)]
    @@
    [name |-> name, epoch |-> 0, version |-> DefaultVersion,
     release |-> DefaultRelease, arch |-> DefaultArch,
     license |-> DefaultLicense, summary |-> <<>>,
     unknown |-> SelectSeq(items, LAMBDA it : it.opt \notin VecOptions \cup SingleOptions)]

\* clap refuses a single-valued option given twice
SingleOnce(items) ==
    \A i, j \in 1..Len(items) :
        i # j /\ items[i].opt = items[j].opt => items[i].opt \notin SingleOptions

----------------------------------------------------------------------------
(* main, main.rs:240-441 *)

\* main returns Err(e): nothing after the failing expression runs
Fail(e) ==
    /\ pc' = "failed"
    /\ err' = e
    /\ idx' = 0
    /\ parsed' = <<>>

Goto(step) ==
    /\ pc' = step
    /\ idx' = StartIdx(step)
    /\ parsed' = <<>>
    /\ err' = err

\* Cli::parse(): the package name is required, and an option that Cli does
\* not declare is refused
ParseArgs ==
    /\ pc = "parse"
    /\ IF args.name.some /\ args.unknown = <<>> THEN Goto("new")
       ELSE Fail(Error("clap", <<>>))
    /\ UNCHANGED <<args, fs, calls, output_path, outFile>>

\* the match on args.compression with Gzip for the library's default
GzipUnlessGiven(c) ==
    IF ~c.some THEN "Gzip"
    ELSE CASE c.v = <<"g", "z", "i", "p">> -> "Gzip"
           [] c.v = <<"z", "s", "t", "d">> -> "Zstd"
           [] c.v = <<"n", "o", "n", "e">> -> "None"

\* the match on args.compression: the library's type, its default when the
\* option is not given
CompressionType(c) ==
    IF ~c.some THEN "default"
    ELSE CASE c.v = <<"g", "z", "i", "p">> -> "Gzip"
           [] c.v = <<"z", "s", "t", "d">> -> "Zstd"
           [] c.v = <<"n", "o", "n", "e">> -> "None"

\* PackageBuilder::new(..).using_config(..).release(..).epoch(..)
NewBuilder ==
    /\ pc = "new"
    /\ calls' = Append(calls,
          [op |-> "new", name |-> args.name.v, version |-> args.version,
           license |-> args.license, arch |-> args.arch,
           summary |-> args.summary,
           compression |-> CompressionType(args.compression),
           release |-> args.release, epoch |-> args.epoch, ok |-> TRUE])
    /\ Goto(NextStep(pc))
    /\ UNCHANGED <<args, fs, output_path, outFile>>

\* what each file loop does to the options of its entries
ClassOptions(class, options) ==
    CASE class = "file"        -> options
      [] class = "exec_file"   -> [options EXCEPT !.mode = ExecMode]
      [] class = "config_file" -> [options EXCEPT !.config = TRUE]
      [] class = "doc_file"    -> [options EXCEPT !.doc = TRUE]

\* the context each file loop gives a with_file error
FileErrorKind(class) ==
    CASE class = "file"        -> "error adding regular file"
      [] class = "exec_file"   -> "error adding executable file"
      [] class = "config_file" -> "error adding config file"
      [] class = "doc_file"    -> "error adding doc file"

\* the loops over parse_file_options(&args.file / exec_file / config_file /
\* doc_file): the vector is parsed as a whole, then one with_file per step
AddFiles(class) ==
    /\ pc = class
    /\ IF idx = 0
       THEN LET r == parse_file_options(args[class])
            IN  IF r.ok
                THEN /\ parsed' = r.val
                     /\ idx' = 1
                     /\ UNCHANGED <<pc, err, calls>>
                ELSE /\ Fail(r.err)
                     /\ UNCHANGED calls
       ELSE IF idx > Len(parsed)
       THEN /\ Goto(NextStep(pc))
            /\ UNCHANGED calls
       ELSE LET e == parsed[idx]
                c == with_file(fs, class, e.src, ClassOptions(class, FileOptions(e.dest)))
            IN  /\ calls' = Append(calls, c)
                /\ IF c.ok
                   THEN /\ idx' = idx + 1
                        /\ UNCHANGED <<pc, err, parsed>>
                   ELSE Fail(Error(FileErrorKind(class), e.src))
    /\ UNCHANGED <<args, fs, output_path, outFile>>

\* the loop over args.dir
AddDirs ==
    /\ pc = "dir"
    /\ IF idx > Len(args.dir)
       THEN /\ Goto(NextStep(pc))
            /\ UNCHANGED calls
       ELSE LET dir   == args.dir[idx]
                parts == split(dir, ":")
            IN  IF Len(parts) # 2
                THEN /\ Fail(Error("invalid file argument", dir))
                     /\ UNCHANGED calls
                ELSE LET Added(r) ==
                             /\ calls' = calls \o r.calls
                             /\ IF r.err = NoErr
                                THEN /\ idx' = idx + 1
                                     /\ UNCHANGED <<pc, err, parsed>>
                                ELSE Fail(Error("error adding dir", parts[1]))
                     IN  Added(add_dir(fs, parts[1], parts[2], 0))
    /\ UNCHANGED <<args, fs, output_path, outFile>>

\* the four `if let Some(scriptlet_path)` blocks
AddScriptlet(which) ==
    /\ pc = which
    /\ IF ~args[which].some
       THEN /\ Goto(NextStep(pc))
            /\ UNCHANGED calls
       ELSE LET path == args[which].v
                node == Stat(fs, path)
                rd   == [op |-> "read_to_string", path |-> path,
                         ok |-> node.kind = "file"]
            IN  IF rd.ok
                THEN /\ calls' = calls \o
                          <<rd, [op |-> which, content |-> node.content, ok |-> TRUE]>>
                     /\ Goto(NextStep(pc))
                ELSE /\ calls' = Append(calls, rd)
                     /\ Fail(Error("error reading scriptlet", path))
    /\ UNCHANGED <<args, fs, output_path, outFile>>

\* the loop over args.changelog
AddChangelog ==
    /\ pc = "changelog"
    /\ IF idx > Len(args.changelog)
       THEN /\ Goto(NextStep(pc))
            /\ UNCHANGED calls
       ELSE LET raw_entry == args.changelog[idx]
                parts     == split(raw_entry, ":")
            IN  IF Len(parts) # 3
                THEN /\ Fail(Error("invalid file argument", raw_entry))
                     /\ UNCHANGED calls
                ELSE LET date == ParseDate(parts[3])
                     IN  IF ~date.ok
                         THEN /\ Fail(Error("error while parsing date time", <<>>))
                              /\ UNCHANGED calls
                         ELSE /\ calls' = Append(calls,
                                    [op |-> "add_changelog_entry", name |-> parts[1],
                                     content |-> parts[2],
                                     timestamp |-> TimestampAsU32(date), ok |-> TRUE])
                              /\ idx' = idx + 1
                              /\ UNCHANGED <<pc, err, parsed>>
    /\ UNCHANGED <<args, fs, output_path, outFile>>

\* the eight loops with the bodies of the enhances and the recommends loops
\* exchanged
AddDependenciesCrossed(kind) ==
    /\ pc = kind
    /\ IF idx > Len(args[kind])
       THEN /\ Goto(NextStep(pc))
            /\ UNCHANGED calls
       ELSE LET r == parse_dependency(args[kind][idx])
                method == IF kind = "enhances" THEN "recommends"
                          ELSE IF kind = "recommends" THEN "enhances" ELSE kind
            IN  IF r.ok
                THEN /\ calls' = Append(calls, [op |-> method, dep |-> r.dep, ok |-> TRUE])
                     /\ idx' = idx + 1
                     /\ UNCHANGED <<pc, err, parsed>>
                ELSE /\ Fail(r.err)
                     /\ UNCHANGED calls
    /\ UNCHANGED <<args, fs, output_path, outFile>>

\* the eight loops over args.requires ... args.supplements
AddDependencies(kind) ==
    /\ pc = kind
    /\ IF idx > Len(args[kind])
       THEN /\ Goto(NextStep(pc))
            /\ UNCHANGED calls
       ELSE LET r == parse_dependency(args[kind][idx])
            IN  IF r.ok
                THEN /\ calls' = Append(calls, [op |-> kind, dep |-> r.dep, ok |-> TRUE])
                     /\ idx' = idx + 1
                     /\ UNCHANGED <<pc, err, parsed>>
                ELSE /\ Fail(r.err)
                     /\ UNCHANGED calls
    /\ UNCHANGED <<args, fs, output_path, outFile>>

\* the armoured secret key load_from_asc_bytes accepts
ValidKey == <<"k", "e", "y">>

\* fs::read(&signing_key_path) and Signer::load_from_asc_bytes(&raw_key)
LoadSigner ==
    /\ pc = "sign"
    /\ IF ~args.sign_with_pgp_asc.some
       THEN /\ Goto(NextStep(pc))
            /\ UNCHANGED calls
       ELSE LET path == args.sign_with_pgp_asc.v
                node == Stat(fs, path)
                rd   == [op |-> "read", path |-> path, ok |-> node.kind = "file"]
                ld   == [op |-> "load_from_asc_bytes", ok |-> node.content = ValidKey]
            IN  IF ~rd.ok
                THEN /\ calls' = Append(calls, rd)
                     /\ Fail(Error("unable to load private key file", path))
                ELSE /\ calls' = calls \o <<rd, ld>>
                     /\ IF ld.ok THEN Goto(NextStep(pc))
                        ELSE Fail(Error("unable to create signer", path))
    /\ UNCHANGED <<args, fs, output_path, outFile>>

\* builder.build() or builder.build_and_sign(signer): the builder may refuse
Build ==
    /\ pc = "build"
    /\ \E ok \in BOOLEAN :
          /\ calls' = Append(calls,
                [op |-> IF args.sign_with_pgp_asc.some THEN "build_and_sign" ELSE "build",
                 ok |-> ok])
          /\ IF ok THEN Goto(NextStep(pc)) ELSE Fail(Error("build", <<>>))
    /\ UNCHANGED <<args, fs, output_path, outFile>>

\* Nevra::nvra(): name-version-release.arch
Nvra(a) == a.name.v \o <<"-">> \o a.version \o <<"-">> \o a.release \o <<".">> \o a.arch

RpmExt == <<"r", "p", "m">>

\* the path without the separators and "." components that end it
RECURSIVE StripTrailing(_)
StripTrailing(p) ==
    IF Len(p) > 1 /\ Last(p) = "/" THEN StripTrailing(SubSeq(p, 1, Len(p) - 1))
    ELSE IF Len(p) > 1 /\ Last(p) = "." /\ p[Len(p) - 1] = "/"
    THEN StripTrailing(SubSeq(p, 1, Len(p) - 1))
    ELSE p

\* Path::file_stem of a file name: the name up to its last '.', the whole
\* name when it has none or only starts with one
FileStem(name) ==
    LET i == LastIndexFrom(name, ".", Len(name))
    IN  IF i <= 1 THEN name ELSE SubSeq(name, 1, i - 1)

\* the path with '.' and ext added after whatever extension it has
with_added_extension(p, ext) ==
    IF file_name(p) = <<>> THEN p ELSE StripTrailing(p) \o <<".">> \o ext

\* Path::with_extension(ext): the path cut after the stem of its file name,
\* then '.' and ext; a path without a file name is returned as it is
with_extension(p, ext) ==
    LET name == file_name(p)
        q    == StripTrailing(p)
    IN  IF name = <<>> THEN p
        ELSE SubSeq(q, 1, Len(q) - Len(name)) \o FileStem(name) \o <<".">> \o ext

\* format!("{}.rpm", pkg.metadata.get_nevra().unwrap().nvra())
FileName(a) == Nvra(a) \o <<".">> \o RpmExt

\* the output path of a main that takes every path given for a directory
OutputPathJoined(f, out, filename) ==
    IF out.some THEN push(out.v, filename) ELSE filename

\* let output_path, main.rs:421-432: the path main writes the package to in
\* filesystem f, for the value out of --out and the file name filename
OutputPath(f, out, filename) ==
    IF out.some
    THEN IF Stat(f, out.v).kind = "dir"
         THEN push(out.v, filename)
         ELSE with_extension(out.v, RpmExt)
    ELSE filename

\* main.rs:419-432
ResolveOutputPath ==
    /\ pc = "resolve"
    /\ IF args.out.some
       THEN calls' = Append(calls, [op |-> "metadata", path |-> args.out.v,
                                    ok |-> Stat(fs, args.out.v).kind # "none"])
       ELSE UNCHANGED calls
    /\ output_path' = Some(OutputPath(fs, args.out, FileName(args)))
    /\ Goto(NextStep(pc))
    /\ UNCHANGED <<args, fs, outFile>>

\* fs::File::create(&output_path): creates the file or truncates it
CreateOutputFile ==
    /\ pc = "create"
    /\ \E ok \in BOOLEAN :
          /\ calls' = Append(calls, [op |-> "create", path |-> output_path.v, ok |-> ok])
          /\ IF ok
             THEN /\ outFile' = "created"
                  /\ Goto(NextStep(pc))
             ELSE /\ outFile' = outFile
                  /\ Fail(Error("unable to create output file", output_path.v))
    /\ UNCHANGED <<args, fs, output_path>>

\* pkg.write(&mut out_file): an error leaves what was written so far
WritePackage ==
    /\ pc = "write"
    /\ \E ok \in BOOLEAN :
          /\ calls' = Append(calls, [op |-> "write", path |-> output_path.v, ok |-> ok])
          /\ IF ok
             THEN /\ outFile' = "written"
                  /\ Goto(NextStep(pc))
             ELSE /\ outFile' = "partial"
                  /\ Fail(Error("unable to write package to path", output_path.v))
    /\ UNCHANGED <<args, fs, output_path>>

Next ==
    \/ ParseArgs
    \/ NewBuilder
    \/ \E class \in FileClasses : AddFiles(class)
    \/ AddDirs
    \/ \E which \in Scriptlets : AddScriptlet(which)
    \/ AddChangelog
    \/ \E kind \in KindSet : AddDependencies(kind)
    \/ LoadSigner
    \/ Build
    \/ ResolveOutputPath
    \/ CreateOutputFile
    \/ WritePackage

----------------------------------------------------------------------------
(* The runs checked *)

\* the filesystem of the runs: the root directory, in which the process runs,
\* with a file a, a key file k and a directory d that has a file a and a
\* subdirectory s holding a file a; nothing else exists
Fs0 ==
    (<<>> :> Dir(<< <<"a">>, <<"k">>, <<"d">> >>)) @@
    (<<"a">> :> File(<<"x">>)) @@
    (<<"k">> :> File(ValidKey)) @@
    (<<"d">> :> Dir(<< <<"a">>, <<"s">> >>)) @@
    (<<"d", "/", "a">> :> File(<<"y">>)) @@
    (<<"d", "/", "s">> :> Dir(<< <<"a">> >>)) @@
    (<<"d", "/", "s", "/", "a">> :> File(<<"z">>))

PkgName == <<"p">>

\* main starts with the command line a in the filesystem f
StartIn(a, f) ==
    /\ pc = "parse"
    /\ idx = 0
    /\ args = a
    /\ fs = f
    /\ parsed = <<>>
    /\ calls = <<>>
    /\ err = NoErr
    /\ output_path = None
    /\ outFile = "untouched"

Start(a) == StartIn(a, Fs0)

Items(opts, values) == {[opt |-> o, v |-> x] : o \in opts, x \in values}

\* a well-formed argument, one whose source does not exist, a malformed one
FileValues ==
    {<<"a", ":", "/", "b">>, <<"m", ":", "/", "b">>, <<"a">>}
DirValues ==
    {<<"d", ":", "/", "o">>, <<"m", ":", "/", "o">>, <<"d">>}
ChangelogValues ==
    {<<"a", ":", "b", ":", "2", "0", "1", "8", "-", "0", "1", "-", "0", "2">>,
     <<"a", ":", "b">>,
     <<"a", ":", "b", ":", "x">>}
DepValues == {<<"a", ">", "=", "1">>, <<"a", " ", "b">>}
PathValues == {<<"a">>, <<"m">>}
KeyValues == {<<"k">>, <<"a">>, <<"m">>}
OutValues == {<<"o">>, <<"d">>}
\* enum Compression
CompressionValues ==
    {<<"g", "z", "i", "p">>, <<"z", "s", "t", "d">>,
     <<"n", "o", "n", "e">>}

MainItems ==
    Items(FileClasses, FileValues) \cup Items({"dir"}, DirValues)
    \cup Items({"changelog"}, ChangelogValues) \cup Items(KindSet, DepValues)
    \cup Items(Scriptlets, PathValues) \cup Items({"sign_with_pgp_asc"}, KeyValues)
    \cup Items({"out"}, OutValues) \cup Items({"compression"}, CompressionValues)

\* every command line of at most MaxArgs options, with or without a name
MainArgs ==
    {Cli(name, items) :
        name \in {None, Some(PkgName)},
        items \in {its \in StrUpTo(MainItems, MaxArgs) : SingleOnce(its)}}

Init == \E a \in MainArgs : Start(a)

Spec == Init /\ [][Next]_vars

\* One argument of a file class or of --dir, every text of at most MaxFileLen
\* characters over FileChars.
FileChars == {"a", "d", ":", "/"}
FileLines == StrUpTo(FileChars, MaxFileLen)
FileArgs ==
    {Cli(Some(PkgName), <<it>>) : it \in Items(FileClasses \cup {"dir"}, FileLines)}

InitFile == \E a \in FileArgs : Start(a)
SpecFile == InitFile /\ [][Next]_vars

\* One dependency argument of any relation kind: every text of at most
\* MaxDepLen characters over DepChars, and the texts name, blanks, operator,
\* blanks, version.
DepChars == {"a", " ", ">", "<", "=", "/"}
DepOperators == {<<">", "=">>, <<">">>, <<"=">>, <<"<", "=">>, <<"<">>}
DepShaped ==
    {n \o w1 \o op \o w2 \o v :
        n \in {<<"a">>, <<"a", "1">>}, w1 \in {<<>>, <<" ">>}, op \in DepOperators,
        w2 \in {<<>>, <<" ">>}, v \in {<<"1">>, <<"1", "a">>}}
    \cup {<<"/", "a", "/", "a">>, <<"a", "/", "a", "1">>}
DepLines == StrUpTo(DepChars, MaxDepLen) \cup DepShaped
DepArgs == {Cli(Some(PkgName), <<it>>) : it \in Items(KindSet, DepLines)}

InitDep == \E a \in DepArgs : Start(a)
SpecDep == InitDep /\ [][Next]_vars

\* At most MaxDeps dependency options of any kinds, in any order: two
\* well-formed arguments that differ and a malformed one.
KindValues == DepValues \cup {<<"b">>}
KindArgs ==
    {Cli(Some(PkgName), its) : its \in StrUpTo(Items(KindSet, KindValues), MaxDeps)}

InitKinds == \E a \in KindArgs : Start(a)
SpecKinds == InitKinds /\ [][Next]_vars

\* --changelog arguments only: one argument made of one to four segments, or
\* at most MaxChangelogs arguments of ChangelogValues and two more
Date2018 == <<"2", "0", "1", "8", "-", "0", "1", "-", "0", "2">>
Date2019 == <<"2", "0", "1", "9", "-", "0", "2", "-", "0", "3">>
Segments == {<<>>, <<"a">>, <<"b", " ", "c">>, Date2018, Date2019, <<"x">>}
RECURSIVE JoinSegments(_)
JoinSegments(segs) ==
    IF Len(segs) = 1 THEN segs[1]
    ELSE segs[1] \o <<":">> \o JoinSegments(Tail(segs))
ChangelogLines ==
    {JoinSegments(segs) : segs \in StrUpTo(Segments, 4) \ {<<>>}}
ChangelogPairValues ==
    ChangelogValues
    \cup {<<"b", ":", "c">> \o <<":">> \o Date2019,
          <<"a", ":", "b", ":", "c">> \o <<":">> \o Date2018}
ChangelogArgs ==
    {Cli(Some(PkgName), <<it>>) : it \in Items({"changelog"}, ChangelogLines)}
    \cup {Cli(Some(PkgName), its) :
            its \in StrUpTo(Items({"changelog"}, ChangelogPairValues), MaxChangelogs)}

InitChangelog == \E a \in ChangelogArgs : Start(a)
SpecChangelog == InitChangelog /\ [][Next]_vars

\* No --out option, or one: every path of at most MaxOutLen characters over
\* OutChars (a names a file, d a directory, m nothing), and four longer ones.
OutChars == {"a", "d", "m", ".", "/"}
OutLines ==
    StrUpTo(OutChars, MaxOutLen)
    \cup {<<"/", "d", "/", "a", ".", "m">>, <<"d", "/", "s", "/", ".", ".">>,
          <<"m", "/", ".", ".">>, <<"a", "/", ".", ".">>}
OutArgs ==
    {Cli(Some(PkgName), <<>>)}
    \cup {Cli(Some(PkgName), <<it>>) : it \in Items({"out"}, OutLines)}

InitOut == \E a \in OutArgs : Start(a)
SpecOut == InitOut /\ [][Next]_vars

\* Two passes of the output path: a first run for each package name and each
\* --out of OutLines (or none), and the run that is given what the first one
\* resolved in the same filesystem.
PassNames == {<<"p">>, <<"a", ".", "d">>, <<"/", "d">>}
FirstPassArgs ==
    {Cli(Some(n), <<>>) : n \in PassNames}
    \cup {Cli(Some(n), <<it>>) : n \in PassNames, it \in Items({"out"}, OutLines)}
SecondPass(a) ==
    Cli(a.name, <<[opt |-> "out", v |-> OutputPath(Fs0, a.out, FileName(a))]>>)
PassArgs == FirstPassArgs \cup {SecondPass(a) : a \in FirstPassArgs}

InitPass == \E a \in PassArgs : Start(a)
SpecPass == InitPass /\ [][Next]_vars

\* At most MaxDirArgs directory mappings, given with --dir or with the
\* options --config-dir and --doc-dir.
DirClassOptions == {"dir", "config_dir", "doc_dir"}
DirClassArgs ==
    {Cli(Some(PkgName), its) :
        its \in StrUpTo(Items(DirClassOptions, DirValues), MaxDirArgs)}

InitDirClass == \E a \in DirClassArgs : Start(a)
SpecDirClass == InitDirClass /\ [][Next]_vars

\* One --dir mapping of a source tree: the directories d, d/s, d/s/s, ... nested
\* nest deep, a file a in the directories whose level is in files, a
\* symbolic link l in the directory of level link.level (none for level 0), and
\* in the root a file a, the key k and a link r to d/l.  The entries of a
\* directory are yielded in one order or in the reverse one.
RECURSIVE DirKey(_)
DirKey(i) == IF i = 1 THEN <<"d">> ELSE DirKey(i - 1) \o <<"/", "s">>

LinkTargets ==
    {<<"a">>, <<"/", "a">>, <<"d">>, <<"/", "d">>, <<"/", "d", "/", "s">>,
     <<"d", "/", "a">>, <<"/", "d", "/", "s", "/", "a">>, <<"d", "/", "l">>,
     <<"r">>, <<"m">>, <<"/">>, <<".", ".">>}

Reverse(s) == [i \in 1..Len(s) |-> s[Len(s) + 1 - i]]

TreeEntries(nest, files, link, rev, i) ==
    LET es == (IF i \in files THEN << <<"a">> >> ELSE <<>>)
              \o (IF link.level = i THEN << <<"l">> >> ELSE <<>>)
              \o (IF i < nest THEN << <<"s">> >> ELSE <<>>)
    IN  IF rev THEN Reverse(es) ELSE es

TreeFs(nest, files, link, rev) ==
    LET dirs  == {DirKey(i) : i \in 1..nest}
        regs  == {push(DirKey(i), <<"a">>) : i \in files \cap (1..nest)}
        links == {push(DirKey(i), <<"l">>) : i \in {link.level} \cap (1..nest)}
        level(k) == CHOOSE i \in 1..nest : DirKey(i) = k
    IN  [k \in dirs |-> Dir(TreeEntries(nest, files, link, rev, level(k)))]
        @@ [k \in regs |-> File(<<"y">>)]
        @@ [k \in links |-> Symlink(link.target)]
        @@ (<<>> :> Dir(<< <<"a">>, <<"k">>, <<"d">>, <<"r">> >>))
        @@ (<<"a">> :> File(<<"x">>))
        @@ (<<"k">> :> File(ValidKey))
        @@ (<<"r">> :> Symlink(<<"d", "/", "l">>))

Trees ==
    {TreeFs(nest, files, link, rev) :
        nest \in 1..MaxNest, files \in SUBSET (1..MaxNest),
        link \in {[level |-> 0, target |-> <<>>]}
                 \cup [level : 1..MaxNest, target : LinkTargets],
        rev \in BOOLEAN}

TreeDirValues == {<<"d", ":", "/", "o">>, <<"d", "/", "s", ":", "/", "o">>}
TreeArgs == {Cli(Some(PkgName), <<it>>) : it \in Items({"dir"}, TreeDirValues)}

InitTree == \E a \in TreeArgs : \E f \in Trees : StartIn(a, f)
SpecTree == InitTree /\ [][Next]_vars

\* One --changelog argument a:b:<date>, the date written yyyy-mm-dd for every
\* year, month and day number tried, whether or not there is such a day.
DigitChars == <<"0", "1", "2", "3", "4", "5", "6", "7", "8", "9">>
TwoDigits(n) == <<DigitChars[(n \div 10) + 1], DigitChars[(n % 10) + 1]>>
FourDigits(n) == TwoDigits(n \div 100) \o TwoDigits(n % 100)
DateText(y, m, d) == FourDigits(y) \o <<"-">> \o TwoDigits(m) \o <<"-">> \o TwoDigits(d)
YearsTried == {1901, 1969, 1970, 2018, 2038, 2106, 2107}
MonthsTried == {1, 2, 12, 13}
DaysTried == {1, 7, 8, 19, 29, 31}
DateLines ==
    {<<"a", ":", "b", ":">> \o DateText(y, m, d) :
        y \in YearsTried, m \in MonthsTried, d \in DaysTried}
DateArgs == {Cli(Some(PkgName), <<it>>) : it \in Items({"changelog"}, DateLines)}

InitDate == \E a \in DateArgs : Start(a)
SpecDate == InitDate /\ [][Next]_vars

----------------------------------------------------------------------------
(* What the claims are stated with *)

CallsOf(ops) == SelectSeq(calls, LAMBDA c : c.op \in ops)
CallsFrom(class) ==
    SelectSeq(calls, LAMBDA c : c.op \in {"with_file", "read_dir"} /\ c.from = class)

BuildOps == {"build", "build_and_sign"}
\* the builder calls that add a file, a scriptlet, a changelog entry or a
\* dependency
AddOps == {"with_file", "add_changelog_entry"} \cup Scriptlets \cup KindSet

Running == pc # "failed"
\* main has left the step behind without failing
Past(step) == Running /\ StepIndex(pc) > StepIndex(step)

ColonPositions(s) == {i \in 1..Len(s) : s[i] = ":"}
NumColons(s) == Cardinality(ColonPositions(s))
FirstColon(s) == CHOOSE i \in ColonPositions(s) : \A j \in ColonPositions(s) : i <= j
LastColon(s) == CHOOSE i \in ColonPositions(s) : \A j \in ColonPositions(s) : i >= j
Before(s, i) == SubSeq(s, 1, i - 1)
After(s, i) == SubSeq(s, i + 1, Len(s))

----------------------------------------------------------------------------
(* C1: a run of main that fails, at whatever step, has not created,        *)
(* truncated or partly written the file at the output path, and a run that *)
(* succeeds has created or overwritten exactly one file.                   *)
(* As claimed; the run that fails in pkg.write refutes it.                 *)
C1_NoOutputOnFailure ==
    /\ pc = "failed" => outFile = "untouched"
    /\ pc = "done" =>
          /\ outFile = "written"
          /\ Len(SelectSeq(calls, LAMBDA c : c.op = "create" /\ c.ok)) = 1

----------------------------------------------------------------------------
(* C2: the steps of main happen in the order base metadata, plain,         *)
(* executable and config files, directories, doc files, scriptlets,        *)
(* changelog entries, dependencies, signing key, build, output path        *)
(* resolution, write; the output path is not resolved and no output file   *)
(* is created before the build call has returned successfully.             *)
Rank(c) ==
    CASE c.op = "new" -> 1
      [] c.op = "with_file" /\ c.from = "file" -> 2
      [] c.op = "with_file" /\ c.from = "exec_file" -> 3
      [] c.op = "with_file" /\ c.from = "config_file" -> 4
      [] c.op \in {"with_file", "read_dir"} /\ c.from = "dir" -> 5
      [] c.op = "with_file" /\ c.from = "doc_file" -> 6
      [] c.op \in Scriptlets \cup {"read_to_string"} -> 7
      [] c.op = "add_changelog_entry" -> 8
      [] c.op \in KindSet -> 9
      [] c.op \in {"read", "load_from_asc_bytes"} -> 10
      [] c.op \in BuildOps -> 11
      [] c.op = "metadata" -> 12
      [] c.op = "create" -> 13
      [] c.op = "write" -> 14

BuiltAt(i) == calls[i].op \in BuildOps /\ calls[i].ok

C2_StepOrder ==
    /\ \A i, j \in 1..Len(calls) : i < j => Rank(calls[i]) <= Rank(calls[j])
    /\ calls # <<>> => calls[1].op = "new"
    /\ \A j \in 1..Len(calls) :
          calls[j].op \in {"metadata", "create", "write"} =>
              \E i \in 1..(j - 1) : BuiltAt(i)
    /\ output_path.some \/ outFile # "untouched" =>
          \E i \in 1..Len(calls) : BuiltAt(i)
    /\ \A j \in 1..Len(calls) :
          calls[j].op \in {"create", "write"} => output_path.some
    /\ \A j \in 1..Len(calls) :
          calls[j].op = "write" => \E i \in 1..(j - 1) : calls[i].op = "create" /\ calls[i].ok

\* a run that added a directory's files, then a doc file, and wrote the package
C2_Witness ==
    /\ pc = "done"
    /\ \E i, j \in 1..Len(calls) :
          /\ i < j
          /\ calls[i].op = "with_file" /\ calls[i].from = "dir"
          /\ calls[j].op = "with_file" /\ calls[j].from = "doc_file"

----------------------------------------------------------------------------
(* C3: when an argument of any class is malformed, no builder call that    *)
(* adds a file, a scriptlet, a changelog entry or a dependency has been    *)
(* made when the failure is reported.                                      *)
MalformedKinds ==
    {"invalid file argument", "invalid pattern in dependency block",
     "error while parsing date time"}

\* As claimed; a well-formed --file before a malformed --exec-file refutes it.
C3_NoAddBeforeMalformedFailure ==
    pc = "failed" /\ err.kind \in MalformedKinds =>
        CallsOf(AddOps) = <<>>

\* the dependency grammar, read off the text: a name, then nothing, or
\* blanks, an operator character and at least one more character
DepWellFormed(s) ==
    LET n == RunLength(s, 1, Letters \cup Digits \cup {"-", ".", "_"})
        r == SubSeq(s, n + 1 + RunLength(s, n + 1, SpaceChars), Len(s))
    IN  /\ n >= 1
        /\ \/ n = Len(s)
           \/ /\ Len(r) >= 2
              /\ r[1] \in {">", "<", "="}
              /\ \A i \in 2..Len(r) : r[i] # "\n"

MalformedArg(opt, s) ==
    CASE opt \in FileClasses \cup {"dir"} -> NumColons(s) # 1
      [] opt = "changelog" -> NumColons(s) # 2 \/ ~ParseDate(After(s, LastColon(s))).ok
      [] opt \in KindSet -> ~DepWellFormed(s)

HasMalformed(opt) == \E i \in 1..Len(args[opt]) : MalformedArg(opt, args[opt][i])

\* C3 as amended: when an argument of any class is malformed, the build call
\* is never made and no output file is created; and no entry of a file class
\* is added when an argument of that class is malformed.
C3_NoBuildFromMalformed ==
    /\ (\E opt \in VecOptions : HasMalformed(opt)) =>
          /\ CallsOf(BuildOps) = <<>>
          /\ output_path = None
          /\ outFile = "untouched"
          /\ pc # "done"
    /\ \A class \in FileClasses : HasMalformed(class) => CallsFrom(class) = <<>>

\* a plain file was added, then the malformed --exec-file stopped the run
C3_Witness ==
    /\ pc = "failed"
    /\ err.kind = "invalid file argument"
    /\ HasMalformed("exec_file")
    /\ \E i \in 1..Len(calls) : calls[i].op = "with_file" /\ calls[i].ok

----------------------------------------------------------------------------
(* C4: an argument of a file class, or of --dir, with exactly one ':' is   *)
(* taken as (text before the ':', text after it), whatever its class; an   *)
(* argument with no ':' or with two or more is refused.                    *)

\* the one argument of a run of SpecFile: its option and its text
TheItems ==
    {[opt |-> o, v |-> args[o][1]] : o \in {x \in VecOptions : args[x] # <<>>}}

C4_TwoSegments ==
    \A it \in TheItems :
        LET s == it.v
            c == it.opt
        IN  IF NumColons(s) = 1
            THEN LET src  == Before(s, FirstColon(s))
                     dest == After(s, FirstColon(s))
                 IN  /\ err.kind # "invalid file argument"
                     /\ c \in FileClasses /\ pc = c /\ idx >= 1 =>
                           parsed = <<[src |-> src, dest |-> dest]>>
                     /\ c \in FileClasses /\ (Past(c) \/ pc = "failed") =>
                           /\ Len(CallsFrom(c)) = 1
                           /\ CallsFrom(c)[1].src = src
                           /\ CallsFrom(c)[1].options.dest = dest
                     /\ c = "dir" /\ (Past(c) \/ pc = "failed") =>
                           /\ CallsFrom(c) # <<>>
                           /\ CallsFrom(c)[1].op = "read_dir"
                           /\ CallsFrom(c)[1].path = src
                           /\ \A i \in 1..Len(CallsFrom(c)) :
                                 CallsFrom(c)[i].op = "with_file" =>
                                    LET d == CallsFrom(c)[i].options.dest
                                    IN  /\ Len(d) > Len(dest)
                                        /\ SubSeq(d, 1, Len(dest)) = dest
            ELSE /\ CallsFrom(c) = <<>>
                 /\ ~Past(c)
                 /\ pc = "failed" => err = Error("invalid file argument", s)

\* the --exec-file argument a:d was split, added, and the package written
C4_Witness ==
    /\ pc = "done"
    /\ args.exec_file = << <<"a", ":", "d">> >>
    /\ \E i \in 1..Len(calls) :
          /\ calls[i].op = "with_file"
          /\ calls[i].from = "exec_file"
          /\ calls[i].src = <<"a">>
          /\ calls[i].options.dest = <<"d">>

----------------------------------------------------------------------------
(* C5: an argument whose source segment or destination segment is empty    *)
(* (':/dest', 'src:', ':') fails with the malformed-entry error and makes  *)
(* no file entry.                                                          *)
(* As claimed; 'a:' refutes it: it is split into ("a", "") and added.      *)
C5_EmptySegmentRejected ==
    \A it \in TheItems :
        LET s == it.v
            c == it.opt
        IN  /\ c \in FileClasses \cup {"dir"}
            /\ NumColons(s) = 1
            /\ (Before(s, FirstColon(s)) = <<>> \/ After(s, FirstColon(s)) = <<>>)
            => /\ CallsFrom(c) = <<>>
               /\ ~Past(c)
               /\ pc = "failed" => err = Error("invalid file argument", s)

----------------------------------------------------------------------------
(* C6: a dependency argument name, operator, version gives a relation on   *)
(* that name with the comparison the operator denotes; a name alone gives  *)
(* an any-version relation on that name.                                   *)

NameChars == Letters \cup Digits \cup {"-", ".", "_"}
IsName(n) == n # <<>> /\ \A i \in 1..Len(n) : n[i] \in NameChars
IsBlank(w) == \A i \in 1..Len(w) : w[i] \in SpaceChars

\* what each operator denotes
Denotes(op) ==
    CASE op = <<"=">>      -> "eq"
      [] op = <<"<">>      -> "less"
      [] op = <<"<", "=">> -> "less_eq"
      [] op = <<">">>      -> "greater"
      [] op = <<">", "=">> -> "greater_eq"

\* The readings of s as name, blanks, operator, rest: the operator is the
\* whole operator of the text (a rest starting with '=' after '>' or '<'
\* belongs to the reading with '>=' or '<='), the rest is not empty.
Readings(s) ==
    {r \in [n : 1..Len(s), w : 0..Len(s), op : DepOperators] :
        /\ IsName(SubSeq(s, 1, r.n))
        /\ r.n + r.w + Len(r.op) < Len(s)
        /\ IsBlank(SubSeq(s, r.n + 1, r.n + r.w))
        /\ SubSeq(s, r.n + r.w + 1, r.n + r.w + Len(r.op)) = r.op
        /\ ~(Len(r.op) = 1 /\ r.op # <<"=">> /\ s[r.n + r.w + 2] = "=")}

RestOf(s, r) == SubSeq(s, r.n + r.w + Len(r.op) + 1, Len(s))

\* the one dependency argument of a run of SpecDep
TheDeps == {it \in TheItems : it.opt \in KindSet}

\* the argument has been through parse_dependency
Parsed(kind) == Past(kind) \/ pc = "failed" \/ (pc = kind /\ idx > 1)

C6_OperatorDenoted ==
    \A it \in TheDeps :
        LET s == it.v
            k == it.opt
        IN  /\ \A r \in Readings(s) :
                  /\ err.kind # "invalid pattern in dependency block"
                  /\ Parsed(k) =>
                        /\ Len(CallsOf({k})) = 1
                        /\ CallsOf({k})[1].dep.name = SubSeq(s, 1, r.n)
                        /\ CallsOf({k})[1].dep.flags = Denotes(r.op)
            /\ IsName(s) =>
                  /\ err.kind # "invalid pattern in dependency block"
                  /\ Parsed(k) =>
                        /\ Len(CallsOf({k})) = 1
                        /\ CallsOf({k})[1].dep = Dependency(s, "any", <<>>)

\* --supplements 'a <=1' reached the builder as a less-or-equal relation
C6_Witness ==
    /\ pc = "done"
    /\ args.supplements = << <<"a", " ", "<", "=", "1">> >>
    /\ CallsOf({"supplements"}) =
          << [op |-> "supplements", dep |-> Dependency(<<"a">>, "less_eq", <<"1">>),
              ok |-> TRUE] >>

----------------------------------------------------------------------------
(* C7: the version of the relation is the text after the operator with the *)
(* blanks around it removed: 'n op v' and 'nopv' give the same version v.  *)
(* As claimed; 'a >= 1' refutes it: its version is ' 1'.                   *)
C7_VersionTrimmed ==
    \A it \in TheDeps :
        \A r \in Readings(it.v) :
            LET rest == RestOf(it.v, r)
                v    == SubSeq(rest, RunLength(rest, 1, SpaceChars) + 1, Len(rest))
            IN  /\ v # <<>>
                /\ \A i \in 1..Len(v) : v[i] \notin SpaceChars
                /\ Parsed(it.opt)
                => /\ Len(CallsOf({it.opt})) = 1
                   /\ CallsOf({it.opt})[1].dep.version = v

----------------------------------------------------------------------------
----------------------------------------------------------------------------
(* C9: an absolute path as capability name ('/usr/bin/rpmbuilder') is      *)
(* accepted by the dependency parser and gives an any-version relation     *)
(* with that name.                                                         *)
(* As claimed; '/a' refutes it: '/' is not of the name class.              *)
IsPathName(s) ==
    /\ s # <<>>
    /\ s[1] = "/"
    /\ Last(s) # "/"
    /\ \A i \in 1..Len(s) : s[i] \in NameChars \cup {"/"}

C9_PathNameAccepted ==
    \A it \in TheDeps :
        IsPathName(it.v) =>
            /\ err.kind # "invalid pattern in dependency block"
            /\ Parsed(it.opt) =>
                  CallsOf({it.opt}) =
                      <<[op |-> it.opt, dep |-> Dependency(it.v, "any", <<>>), ok |-> TRUE]>>

----------------------------------------------------------------------------
(* C10: each --changelog argument is split on ':' into exactly three       *)
(* segments and handed to the builder as (author = first, description =    *)
(* second, timestamp of the third), one entry per argument in argument     *)
(* order; an argument that does not have three segments fails the run.     *)

ChangelogCalls == CallsOf({"add_changelog_entry"})

\* midnight UTC of the two dates, as tests/test.rs:258 and :263 expect them
ExpectedTimestamp(date) ==
    CASE date = Date2018 -> U32(1514851200)
      [] date = Date2019 -> U32(1549152000)

\* the number of arguments the changelog loop has gone through
ChangelogDone ==
    IF Past("changelog") THEN Len(args.changelog)
    ELSE IF pc = "changelog" THEN idx - 1
    ELSE Len(ChangelogCalls)

C10_ChangelogEntries ==
    LET as == args.changelog
        cl == ChangelogCalls
    IN  /\ Len(cl) <= Len(as)
        /\ Running /\ StepIndex(pc) >= StepIndex("changelog") => Len(cl) = ChangelogDone
        /\ \A i \in 1..Len(cl) :
              /\ NumColons(as[i]) = 2
              /\ cl[i].name = Before(as[i], FirstColon(as[i]))
              /\ cl[i].content =
                    SubSeq(as[i], FirstColon(as[i]) + 1, LastColon(as[i]) - 1)
              /\ cl[i].timestamp = ExpectedTimestamp(After(as[i], LastColon(as[i])))
        /\ \A j \in 1..Len(as) :
              NumColons(as[j]) # 2 =>
                 /\ Len(cl) < j
                 /\ ~Past("changelog")
                 /\ pc = "failed" /\ Len(cl) = j - 1 =>
                       err = Error("invalid file argument", as[j])

\* two entries reached the builder in the order of the arguments
C10_Witness ==
    /\ pc = "done"
    /\ Len(ChangelogCalls) = 2
    /\ ChangelogCalls[1].name = <<"b">>
    /\ ChangelogCalls[1].timestamp = U32(1549152000)
    /\ ChangelogCalls[2].name = <<"a">>
    /\ ChangelogCalls[2].timestamp = U32(1514851200)

----------------------------------------------------------------------------
(* C11: the output path is '<id>.rpm' when no path is given, '<dir>/<id>.rpm' *)
(* when the path given is an existing directory, and otherwise the path     *)
(* given with its extension replaced by '.rpm' (added when it has none).    *)

\* the identifier of the package p built with the default fields
OutId ==
    <<"p", "-", "1", ".", "0", ".", "0", "-", "1", ".", "n", "o", "a", "r", "c", "h">>
DotRpm == <<".", "r", "p", "m">>

EndsWith(s, t) == Len(s) >= Len(t) /\ SubSeq(s, Len(s) - Len(t) + 1, Len(s)) = t

\* where the final name of q starts, and the name
NameStart(q) == LastIndexFrom(q, "/", Len(q)) + 1
FinalName(q) == SubSeq(q, NameStart(q), Len(q))
\* the path names something: it does not end in "..", and is not made of
\* separators and "." only
Named(p) == FinalName(StripTrailing(p)) \notin {<<>>, <<".">>, <<".", ".">>}
\* the extension of a name starts at its last '.', the first character aside
ExtDots(name) == {i \in 2..Len(name) : name[i] = "."}
ExtensionForced(p) ==
    LET q    == StripTrailing(p)
        name == FinalName(q)
        last == CHOOSE i \in ExtDots(name) : \A j \in ExtDots(name) : j <= i
    IN  IF ExtDots(name) = {} THEN q \o DotRpm
        ELSE SubSeq(q, 1, NameStart(q) + last - 2) \o DotRpm

IsExistingDir(p) == Stat(fs, p).kind = "dir"
JoinedWithId(p) ==
    IF Last(p) = "/" THEN p \o OutId \o DotRpm ELSE p \o <<"/">> \o OutId \o DotRpm

----------------------------------------------------------------------------
(* C12: the options --config-dir and --doc-dir are accepted, every file     *)
(* found under such a root is handed to the builder with the config flag,   *)
(* respectively the doc flag, and the files of a plain --dir carry neither. *)
(* As claimed; Cli declares neither option, and a run given one is refused  *)
(* by Cli::parse.                                                           *)
DirClassGiven ==
    \E i \in 1..Len(args.unknown) : args.unknown[i].opt \in {"config_dir", "doc_dir"}

C12_DirClassesAccepted ==
    /\ DirClassGiven => ~(pc = "failed" /\ err.kind = "clap")
    /\ DirClassGiven /\ Past("dir") =>
          \E i \in 1..Len(calls) :
              /\ calls[i].op = "with_file"
              /\ calls[i].options.config \/ calls[i].options.doc
    /\ \A i \in 1..Len(calls) :
          calls[i].op = "with_file" /\ calls[i].from = "dir" =>
              ~calls[i].options.config /\ ~calls[i].options.doc

----------------------------------------------------------------------------
(* C13: a run given only the package name hands the builder version 1.0.0, *)
(* release 1, epoch 0, arch noarch, license MIT, an empty summary and the   *)
(* library's default compression, adds no file, changelog entry, scriptlet  *)
(* or dependency, and fails only if the build, the creation of the output   *)
(* file or the write fails.                                                 *)
NameOnly == args = Cli(Some(PkgName), <<>>)

C13_Defaults ==
    NameOnly =>
        /\ CallsOf(AddOps \cup {"read_dir", "read_to_string", "read"}) = <<>>
        /\ Past("new") \/ pc = "failed" =>
              /\ calls # <<>>
              /\ calls[1] =
                    [op |-> "new", name |-> <<"p">>,
                     version |-> <<"1", ".", "0", ".", "0">>,
                     release |-> <<"1">>, epoch |-> 0,
                     arch |-> <<"n", "o", "a", "r", "c", "h">>,
                     license |-> <<"M", "I", "T">>, summary |-> <<>>,
                     compression |-> "default", ok |-> TRUE]
        /\ pc = "failed" =>
              err.kind \in {"build", "unable to create output file",
                            "unable to write package to path"}

\* the run given only the name wrote its package
C13_Witness ==
    /\ NameOnly
    /\ pc = "done"
    /\ outFile = "written"
    /\ output_path = Some(OutId \o DotRpm)

----------------------------------------------------------------------------
(* C14: the message of every parse failure quotes the offending input: the  *)
(* whole argument for a malformed file, directory or changelog entry, the   *)
(* whole dependency string for an invalid dependency, and the date segment  *)
(* for a changelog date that does not parse.                                *)
(* As claimed; the message for a date that does not parse quotes the parse  *)
(* error, not the date segment.                                             *)
QuotesArgument(opts) ==
    \E opt \in opts : \E i \in 1..Len(args[opt]) :
        MalformedArg(opt, args[opt][i]) /\ err.input = args[opt][i]

QuotesDateSegment ==
    \E i \in 1..Len(args.changelog) :
        LET s == args.changelog[i]
        IN  /\ NumColons(s) = 2
            /\ ~ParseDate(After(s, LastColon(s))).ok
            /\ err.input = After(s, LastColon(s))

C14_ErrorNamesInput ==
    pc = "failed" =>
        /\ err.kind = "invalid file argument" =>
              QuotesArgument(FileClasses \cup {"dir", "changelog"})
        /\ err.kind = "invalid pattern in dependency block" => QuotesArgument(KindSet)
        /\ err.kind = "error while parsing date time" => QuotesDateSegment

----------------------------------------------------------------------------
(* C15: every file entry handed to the builder, from a file class or from   *)
(* a directory walk, has a destination that begins with '/'.                *)
(* As claimed; --file a:d hands the builder the destination d.              *)
C15_AbsoluteDestinations ==
    \A i \in 1..Len(calls) :
        calls[i].op = "with_file" =>
            /\ calls[i].options.dest # <<>>
            /\ calls[i].options.dest[1] = "/"

----------------------------------------------------------------------------
(* The source tree of a run of SpecTree *)

SourceRoot == Before(args.dir[1], FirstColon(args.dir[1]))
DestinationRoot == After(args.dir[1], FirstColon(args.dir[1]))
IsUnder(k, root) ==
    Len(k) > Len(root) + 1 /\ SubSeq(k, 1, Len(root) + 1) = root \o <<"/">>
\* the regular files and the real directories below the source root
FilesUnderRoot == {k \in DOMAIN fs : fs[k].kind = "file" /\ IsUnder(k, SourceRoot)}
DirsUnderRoot == {k \in DOMAIN fs : fs[k].kind = "dir" /\ IsUnder(k, SourceRoot)}
RelativeToRoot(k) == SubSeq(k, Len(SourceRoot) + 2, Len(k))
WalkCalls == CallsFrom("dir")
FileCalls == SelectSeq(WalkCalls, LAMBDA c : c.op = "with_file")
\* the walk of the source root returned the builder
WalkDone == Past("dir") /\ fs[SourceRoot].kind = "dir"

(* C16: add_dir hands the builder exactly one entry for each regular file   *)
(* below the source root, with the destination root joined with the file's  *)
(* path relative to the source root as its destination; no regular file is  *)
(* skipped or added twice, and a directory gives no entry.                  *)

\* As claimed; a link in the tree to a regular file of the tree has that file
\* added a second time.
C16_EachFileOnce ==
    WalkDone =>
        \A k \in FilesUnderRoot :
            Len(SelectSeq(FileCalls, LAMBDA c : Resolve(fs, c.src, TRUE) = k)) = 1

\* C16 as amended: when the walk returns, the directory entries that are
\* regular files have given exactly one call each, with the file's path as
\* source and the mirrored path as destination, every real directory was
\* read once and gave no entry, and every other call is for a symbolic link.
C16_MirroredEntries ==
    WalkDone =>
        /\ \A k \in FilesUnderRoot :
              LET mine == SelectSeq(FileCalls, LAMBDA c : c.entry = k)
              IN  /\ Len(mine) = 1
                  /\ mine[1].src = k
                  /\ mine[1].options.dest = DestinationRoot \o <<"/">> \o RelativeToRoot(k)
        /\ \A k \in DirsUnderRoot \cup {SourceRoot} :
              /\ Len(SelectSeq(WalkCalls, LAMBDA c : c.op = "read_dir" /\ c.path = k)) = 1
              /\ \A i \in 1..Len(FileCalls) : FileCalls[i].entry # k /\ FileCalls[i].src # k
        /\ \A i \in 1..Len(FileCalls) :
              \/ FileCalls[i].entry \in FilesUnderRoot
              \/ /\ FileCalls[i].entry \in DOMAIN fs
                 /\ fs[FileCalls[i].entry].kind = "symlink"

\* the three files of d, d/s and d/s/s were added, and nothing else
C16_Witness ==
    /\ WalkDone
    /\ SourceRoot = <<"d">>
    /\ Cardinality(FilesUnderRoot) = 3
    /\ Len(FileCalls) = 3

----------------------------------------------------------------------------
(* C17: for a symbolic link add_dir takes the link's target, as read from   *)
(* the link, as the source: a link to a directory is walked like a          *)
(* subdirectory, a link to a regular file gives an entry whose source is    *)
(* the target, and the link is never packaged as a link.                    *)
(* As claimed; a link to a directory is handed to with_file, not walked.    *)
IsLinkEntry(c) == c.entry \in DOMAIN fs /\ fs[c.entry].kind = "symlink"

C17_LinkTargetProcessed ==
    \A i \in 1..Len(FileCalls) :
        IsLinkEntry(FileCalls[i]) =>
            /\ FileCalls[i].src = fs[FileCalls[i].entry].target
            /\ Stat(fs, FileCalls[i].src).kind # "dir"

----------------------------------------------------------------------------
(* C18: add_dir terminates on every finite source tree, those with links    *)
(* to an ancestor directory or to each other included, and its recursion    *)
(* is never deeper than the real directories are nested below the source    *)
(* root.                                                                    *)
Separators(k) == Cardinality({i \in 1..Len(k) : k[i] = "/"})
\* how deep the real directories are nested below the source root
NestingBelowRoot ==
    IF DirsUnderRoot = {} THEN 0
    ELSE LET deepest == CHOOSE k \in DirsUnderRoot :
                            \A j \in DirsUnderRoot : Separators(j) <= Separators(k)
         IN  Separators(RelativeToRoot(deepest)) + 1
ReadDirCalls == SelectSeq(WalkCalls, LAMBDA c : c.op = "read_dir")

BoundedDepth ==
    /\ \A i \in 1..Len(ReadDirCalls) : ReadDirCalls[i].depth <= NestingBelowRoot
    /\ Len(ReadDirCalls) <= Cardinality(DirsUnderRoot) + 1

\* wherever main stands at the --dir argument, add_dir comes back from the
\* source root, with the builder or with one of its errors, after at most one
\* call for the root and one for each node below it
WalkReturns ==
    pc = "dir" /\ idx = 1 =>
        LET r == add_dir(fs, SourceRoot, DestinationRoot, 0)
        IN  /\ r.err.kind \in {"none", "read_dir", "with_file", "path does not have filename"}
            /\ Len(r.calls) <= Cardinality({k \in DOMAIN fs : IsUnder(k, SourceRoot)}) + 1

C18_WalkTerminates == WalkReturns /\ BoundedDepth

\* the walk of d, d/s, d/s/s met the link d/s/s/l to /d two frames deep and
\* came back with an error
C18_Witness ==
    /\ pc = "failed"
    /\ err.kind = "error adding dir"
    /\ SourceRoot = <<"d">>
    /\ \E i \in 1..Len(ReadDirCalls) : ReadDirCalls[i].depth = 2
    /\ \E i \in 1..Len(FileCalls) :
          /\ IsLinkEntry(FileCalls[i])
          /\ FileCalls[i].src = <<"/", "d">>

----------------------------------------------------------------------------
(* C19: when the name is followed, after optional blanks, by '>=' or '<=',  *)
(* parse_dependency never gives a strict '>' or '<' relation whose version  *)
(* begins with '=', also when nothing follows the two-character operator.   *)
(* As claimed; 'a>=' is taken as a greater than '='.                        *)
TwoCharOperatorAfterName(s) ==
    LET n  == RunLength(s, 1, NameChars)
        at == n + RunLength(s, n + 1, SpaceChars)
    IN  /\ n >= 1
        /\ Len(s) >= at + 2
        /\ s[at + 1] \in {">", "<"}
        /\ s[at + 2] = "="

C19_TwoCharPreferred ==
    \A it \in TheDeps :
        TwoCharOperatorAfterName(it.v) =>
            \A i \in 1..Len(calls) :
                calls[i].op = it.opt =>
                    ~ /\ calls[i].dep.flags \in {"greater", "less"}
                      /\ calls[i].dep.version # <<>>
                      /\ calls[i].dep.version[1] = "="

----------------------------------------------------------------------------
(* C20: for every date the changelog parser accepts, the timestamp handed   *)
(* to the builder is the number of seconds from 1970-01-01T00:00:00Z to     *)
(* midnight UTC of that date, not wrapped or truncated by the conversion to *)
(* 32 bits, dates before 1970 and after 2106-02-07 included.                *)
(* As claimed; 1969-12-31 and 2106-02-08 are handed over wrapped.           *)
LeapYear(y) == y % 4 = 0 /\ (y % 100 # 0 \/ y % 400 = 0)
\* the leap years from year 1 to year n
LeapYearsTo(n) == (n \div 4) - (n \div 100) + (n \div 400)
\* days from 1 January 1970 to 1 January of year y
DaysToYear(y) == 365 * (y - 1970) + LeapYearsTo(y - 1) - LeapYearsTo(1969)
DaysBeforeMonth == <<0, 31, 59, 90, 120, 151, 181, 212, 243, 273, 304, 334>>
DayNumber(date) ==
    DaysToYear(date.y) + DaysBeforeMonth[date.m] + (date.d - 1)
    + (IF LeapYear(date.y) /\ date.m > 2 THEN 1 ELSE 0)

\* the date of the one --changelog argument of a run of SpecDate
TheDate == ParseDate(After(args.changelog[1], LastColon(args.changelog[1])))

\* a day has 675 times 128 seconds; the timestamp is held as its two 16-bit
\* halves
C20_ExactSeconds ==
    \A i \in 1..Len(ChangelogCalls) :
        /\ ChangelogCalls[i].timestamp.lo % 128 = 0
        /\ ChangelogCalls[i].timestamp.hi * 512 + ChangelogCalls[i].timestamp.lo \div 128
              = DayNumber(TheDate) * 675


----------------------------------------------------------------------------
(* C21: resolving the output path is idempotent: whatever the package      *)
(* identifier and the --out given (or none), when the path a run resolved  *)
(* is not an existing directory, a run given that path as --out in the     *)
(* same filesystem resolves the same path.                                 *)

\* the run has resolved its output path
Resolved == pc \in {"create", "write", "done"} /\ output_path.some

\* what a second pass resolves when it is given the path of this one
Again == OutputPath(fs, Some(output_path.v), FileName(args))

----------------------------------------------------------------------------
(* C22: each dependency argument is added to the relation kind of the      *)
(* option it was given under, in argument order within that kind, and      *)
(* adding it leaves the lists of the other seven kinds unchanged.          *)

\* the dependencies the builder was given for the kind k, in the order given
KindList(k) ==
    LET mine == SelectSeq(calls, LAMBDA c : c.op = k)
    IN  [i \in 1..Len(mine) |-> mine[i].dep]

\* what parse_dependency makes of the first n arguments of the option k
ParsedDeps(k, n) == [i \in 1..n |-> parse_dependency(args[k][i]).dep]

\* the number of arguments of the option k that main has been through
Through(k) ==
    IF pc = k THEN idx - 1
    ELSE IF StepIndex(pc) > StepIndex(k) THEN Len(args[k]) ELSE 0

\* The list of every kind is made of the arguments of its own option, in
\* their order: those main has been through, and after a failure the first
\* ones.  While main is in the loop of one kind the list of every other kind
\* is therefore what it was when that loop began: empty for a kind whose
\* loop comes later, complete for one whose loop is over.
C22_KindsPartitioned ==
    \A k \in KindSet :
        IF Running
        THEN KindList(k) = ParsedDeps(k, Through(k))
        ELSE /\ Len(KindList(k)) <= Len(args[k])
             /\ KindList(k) = ParsedDeps(k, Len(KindList(k)))

\* the dependency loops are over, one kind was given two arguments that
\* differ and holds both in their order, and every other kind holds nothing
C22_Witness ==
    /\ pc = "sign"
    /\ \E k \in KindSet :
          /\ Len(args[k]) = 2
          /\ args[k][1] # args[k][2]
          /\ KindList(k) = ParsedDeps(k, 2)
          /\ KindList(k)[1] # KindList(k)[2]
          /\ \A o \in KindSet \ {k} : KindList(o) = <<>>

====
